---- MODULE Spec2Model ----
(***************************************************************************)
(* A model of apps/api/main.py: the module-level construction of the       *)
(* FastAPI application `app`, the registration of read_root under          *)
(* GET "/", the __main__ guard that starts uvicorn on 0.0.0.0:8000, and    *)
(* the handling of HTTP requests by the application's router.              *)
(*                                                                         *)
(* A path is a sequence of tokens, "/" being a token of its own:           *)
(*   "/"      is <<"/">>              "/docs"  is <<"/", "docs">>          *)
(*   "/docs/" is <<"/", "docs", "/">>                                      *)
(* so that the router's rstrip("/") and + "/" are computed, not assumed.   *)
(***************************************************************************)
EXTENDS Integers, Sequences, FiniteSets, TLC

\* Number of requests a behaviour accepts (request ids 1..MaxRequests).
MaxRequests == 2

\* uvicorn.run(app, host="0.0.0.0", port=8000)
Host == "0.0.0.0"
Port == 8000

ReqIds == 1..MaxRequests

\* The values __name__ takes: executed directly, or imported by a host.
MainName == "__main__"
ImportedName == "apps.api.main"
ModuleNames == {MainName, ImportedName}

\* Request inputs.
Methods == {"GET", "POST", "HEAD"}
RootPath == <<"/">>
DocsPath == <<"/", "docs">>
Paths == {RootPath, <<"/", "nonexistent">>, DocsPath, <<"/", "docs", "/">>}
Queries == {"", "x=1"}
\* Every method on every path, and GET "/" with each query string.
Requests ==
    {[method |-> m, path |-> p, query |-> ""] : m \in Methods, p \in Paths}
    \cup {[method |-> "GET", path |-> RootPath, query |-> q] : q \in Queries}

NoReq == [method |-> "", path |-> <<>>, query |-> ""]
NoResp == [status |-> 0, body |-> [none |-> TRUE]]
NoBind == [host |-> "", port |-> 0]

VARIABLES
    module_name,  \* __name__
    pc,           \* position of the module's top-level code / the server
    routes,       \* app.router.routes, in registration order
    bound,        \* the address the embedded server has bound, or NoBind
    req,          \* req[r]: the request with id r, or NoReq
    stage,        \* stage[r]: "none", "accepted", "matched", "suspended", "done"
    endpoint,     \* endpoint[r]: the endpoint the router matched for r
    cursor,       \* cursor[r]: position in the endpoint's coroutine body
    resp          \* resp[r]: the response written for r, or NoResp

vars == <<module_name, pc, routes, bound, req, stage, endpoint, cursor, resp>>

----------------------------------------------------------------------------
(* The application object and its handlers                                 *)

\* The routes FastAPI(...) installs itself when openapi_url, docs_url and
\* redoc_url keep their defaults (none is passed at lines 4-8). They are
\* plain Starlette routes, so HEAD is added to GET.
DefaultRoutes ==
    << [path |-> <<"/", "openapi.json">>, methods |-> {"GET", "HEAD"},
        endpoint |-> "openapi"],
       [path |-> DocsPath, methods |-> {"GET", "HEAD"},
        endpoint |-> "swagger_ui_html"],
       [path |-> <<"/", "docs", "/", "oauth2-redirect">>,
        methods |-> {"GET", "HEAD"}, endpoint |-> "swagger_ui_redirect"],
       [path |-> <<"/", "redoc">>, methods |-> {"GET", "HEAD"},
        endpoint |-> "redoc_html"] >>

\* @app.get("/"): an APIRoute for GET alone (no implicit HEAD).
RootRoute_AllMethods ==
    [path |-> RootPath, methods |-> Methods, endpoint |-> "read_root"]

RootRoute ==
    [path |-> RootPath, methods |-> {"GET"}, endpoint |-> "read_root"]

\* async def read_root(): one return, no await. A coroutine body is the
\* sequence of its operations; "await" marks a suspension point.
read_root_Stateful ==
    << [op |-> "return",
        value |-> [message |-> IF \E r \in ReqIds : stage[r] = "done"
                               THEN "Welcome back!"
                               ELSE "Welcome to the FastAPI Example!"]] >>

read_root_Awaits ==
    << [op |-> "await", value |-> [none |-> TRUE]],
       [op |-> "return",
        value |-> [message |-> "Welcome to the FastAPI Example!"]] >>

read_root ==
    << [op |-> "return",
        value |-> [message |-> "Welcome to the FastAPI Example!"]] >>

\* The documentation endpoints of the default routes: each returns a fixed
\* document built from title, description and version.
DocsBody(e) ==
    << [op |-> "return",
        value |-> [document |-> e, title |-> "FastAPI Example"]] >>

EndpointBody(e) == IF e = "read_root" THEN read_root ELSE DocsBody(e)

----------------------------------------------------------------------------
(* Routing (the router of app, with redirect_slashes at its default)       *)

\* Route.matches: the path must match; a wrong method is a partial match.
Matches(route, method, path) ==
    IF route.path # path THEN "NONE"
    ELSE IF method \notin route.methods THEN "PARTIAL"
    ELSE "FULL"

\* Index of the first route of rs matching with result kind, 0 if none.
FirstMatch(rs, method, path, kind) ==
    LET hits == {i \in 1..Len(rs) : Matches(rs[i], method, path) = kind}
    IN IF hits = {} THEN 0
       ELSE CHOOSE i \in hits : \A j \in hits : i <= j

RECURSIVE RStrip(_)
RStrip(p) ==
    IF p # <<>> /\ p[Len(p)] = "/" THEN RStrip(SubSeq(p, 1, Len(p) - 1))
    ELSE p

\* The path tried when nothing matched: without its trailing slashes, or
\* with one added.
RedirectPath(p) == IF p[Len(p)] = "/" THEN RStrip(p) ELSE Append(p, "/")

NotFound == [status |-> 404, body |-> [detail |-> "Not Found"]]
MethodNotAllowed == [status |-> 405, body |-> [detail |-> "Method Not Allowed"]]
Redirect(p, q) == [status |-> 307, body |-> [location |-> p, query |-> q]]
Success(v) == [status |-> 200, body |-> v]

\* The router's decision for request rq over route table rs.
Router_OpenFallback(rs, rq) ==
    LET full == FirstMatch(rs, rq.method, rq.path, "FULL")
    IN IF full # 0
       THEN [kind |-> "endpoint", endpoint |-> rs[full].endpoint,
             response |-> NoResp]
       ELSE [kind |-> "endpoint", endpoint |-> "read_root",
             response |-> NoResp]

Router_QueryInPath(rs, rq) ==
    IF rq.query # ""
    THEN [kind |-> "response", endpoint |-> "", response |-> NotFound]
    ELSE LET full == FirstMatch(rs, rq.method, rq.path, "FULL")
         IN IF full # 0
            THEN [kind |-> "endpoint", endpoint |-> rs[full].endpoint,
                  response |-> NoResp]
            ELSE [kind |-> "response", endpoint |-> "", response |-> NotFound]

Router(rs, rq) ==
    LET full == FirstMatch(rs, rq.method, rq.path, "FULL")
        partial == FirstMatch(rs, rq.method, rq.path, "PARTIAL")
    IN IF full # 0
       THEN [kind |-> "endpoint", endpoint |-> rs[full].endpoint,
             response |-> NoResp]
       ELSE IF partial # 0
       THEN [kind |-> "response", endpoint |-> "",
             response |-> MethodNotAllowed]
       ELSE IF rq.path # RootPath
               /\ \E i \in 1..Len(rs) :
                     Matches(rs[i], rq.method, RedirectPath(rq.path)) # "NONE"
       THEN [kind |-> "response", endpoint |-> "",
             response |-> Redirect(RedirectPath(rq.path), rq.query)]
       ELSE [kind |-> "response", endpoint |-> "", response |-> NotFound]

----------------------------------------------------------------------------
(* Module top level                                                        *)

Init ==
    /\ module_name \in ModuleNames
    /\ pc = "line4"
    /\ routes = <<>>
    /\ bound = NoBind
    /\ req = [r \in ReqIds |-> NoReq]
    /\ stage = [r \in ReqIds |-> "none"]
    /\ endpoint = [r \in ReqIds |-> ""]
    /\ cursor = [r \in ReqIds |-> 1]
    /\ resp = [r \in ReqIds |-> NoResp]

\* app = FastAPI(title=..., description=..., version=...)
CreateApp ==
    /\ pc = "line4"
    /\ routes' = DefaultRoutes
    /\ pc' = "line10"
    /\ UNCHANGED <<module_name, bound, req, stage, endpoint, cursor, resp>>

RegisterRoot_ExtraRoute ==
    /\ pc = "line10"
    /\ routes' = routes \o << RootRoute,
                              [path |-> RootPath, methods |-> {"POST"},
                               endpoint |-> "read_root"] >>
    /\ pc' = "line15"
    /\ UNCHANGED <<module_name, bound, req, stage, endpoint, cursor, resp>>

\* @app.get("/") async def read_root(): ...
RegisterRoot ==
    /\ pc = "line10"
    /\ routes' = Append(routes, RootRoute)
    /\ pc' = "line15"
    /\ UNCHANGED <<module_name, bound, req, stage, endpoint, cursor, resp>>

\* if __name__ == "__main__": uvicorn.run(app, host="0.0.0.0", port=8000)
MainGuard_Always ==
    /\ pc = "line15"
    /\ pc' = "serving"
    /\ bound' = [host |-> Host, port |-> Port]
    /\ UNCHANGED <<module_name, routes, req, stage, endpoint, cursor, resp>>

MainGuard_ServeFirst ==
    /\ pc = "line10"
    /\ module_name = MainName
    /\ pc' = "serving"
    /\ bound' = [host |-> Host, port |-> Port]
    /\ UNCHANGED <<module_name, routes, req, stage, endpoint, cursor, resp>>

MainGuard ==
    /\ pc = "line15"
    /\ IF module_name = MainName
       THEN /\ pc' = "serving"
            /\ bound' = [host |-> Host, port |-> Port]
       ELSE /\ pc' = "imported"
            /\ bound' = bound
    /\ UNCHANGED <<module_name, routes, req, stage, endpoint, cursor, resp>>

\* uvicorn.run returns only on an external signal: it stops accepting,
\* lets the requests in flight finish, then releases the port.
Terminate ==
    /\ pc = "serving"
    /\ pc' = "stopping"
    /\ UNCHANGED <<module_name, routes, bound, req, stage, endpoint, cursor, resp>>

Exit ==
    /\ pc = "stopping"
    /\ \A r \in ReqIds : stage[r] \in {"none", "done"}
    /\ pc' = "stopped"
    /\ bound' = NoBind
    /\ UNCHANGED <<module_name, routes, req, stage, endpoint, cursor, resp>>

----------------------------------------------------------------------------
(* Request handling                                                        *)

\* The server (embedded, or the importing host) accepts a request and
\* starts a task calling app.
Accept(r, rq) ==
    /\ pc \in {"serving", "imported"}
    /\ stage[r] = "none"
    /\ \A s \in ReqIds : s < r => stage[s] # "none"
    /\ req' = [req EXCEPT ![r] = rq]
    /\ stage' = [stage EXCEPT ![r] = "accepted"]
    /\ UNCHANGED <<module_name, pc, routes, bound, endpoint, cursor, resp>>

Dispatch_SharedEndpoint(r) ==
    /\ stage[r] = "accepted"
    /\ LET d == Router(routes, req[r])
       IN IF d.kind = "endpoint"
          THEN /\ endpoint' = [s \in ReqIds |-> d.endpoint]
               /\ stage' = [stage EXCEPT ![r] = "matched"]
               /\ resp' = resp
          ELSE /\ resp' = [resp EXCEPT ![r] = d.response]
               /\ stage' = [stage EXCEPT ![r] = "done"]
               /\ endpoint' = endpoint
    /\ UNCHANGED <<module_name, pc, routes, bound, req, cursor>>

\* app's router picks the endpoint, or answers itself (404, 405, 307).
Dispatch(r) ==
    /\ stage[r] = "accepted"
    /\ LET d == Router(routes, req[r])
       IN IF d.kind = "endpoint"
          THEN /\ endpoint' = [endpoint EXCEPT ![r] = d.endpoint]
               /\ stage' = [stage EXCEPT ![r] = "matched"]
               /\ resp' = resp
          ELSE /\ resp' = [resp EXCEPT ![r] = d.response]
               /\ stage' = [stage EXCEPT ![r] = "done"]
               /\ endpoint' = endpoint
    /\ UNCHANGED <<module_name, pc, routes, bound, req, cursor>>

\* The endpoint coroutine runs from its cursor to its next await or to its
\* return; the returned value is sent as a 200 response.
Handle(r) ==
    /\ stage[r] \in {"matched", "suspended"}
    /\ LET o == EndpointBody(endpoint[r])[cursor[r]]
       IN IF o.op = "await"
          THEN /\ cursor' = [cursor EXCEPT ![r] = cursor[r] + 1]
               /\ stage' = [stage EXCEPT ![r] = "suspended"]
               /\ resp' = resp
          ELSE /\ resp' = [resp EXCEPT ![r] = Success(o.value)]
               /\ stage' = [stage EXCEPT ![r] = "done"]
               /\ cursor' = cursor
    /\ UNCHANGED <<module_name, pc, routes, bound, req, endpoint>>

Next ==
    \/ CreateApp
    \/ RegisterRoot
    \/ MainGuard
    \/ Terminate
    \/ Exit
    \/ \E r \in ReqIds, rq \in Requests : Accept(r, rq)
    \/ \E r \in ReqIds : Dispatch(r)
    \/ \E r \in ReqIds : Handle(r)

Spec == Init /\ [][Next]_vars

\* The server's event loop runs every task that is ready.
FairSpec ==
    /\ Spec
    /\ \A r \in ReqIds : WF_vars(Dispatch(r)) /\ WF_vars(Handle(r))

----------------------------------------------------------------------------
(* Properties                                                              *)

Welcome == [message |-> "Welcome to the FastAPI Example!"]
AfterStartup == pc \in {"serving", "imported", "stopping", "stopped"}
RouteTable == DefaultRoutes \o <<RootRoute>>
DocPaths == {DefaultRoutes[i].path : i \in 1..Len(DefaultRoutes)}
IsRootGet(r) == req[r].method = "GET" /\ req[r].path = RootPath

\* C1: every answered GET "/" request, whatever its query string and
\* whatever was served before it, has status 200 and the body
\* {"message": "Welcome to the FastAPI Example!"} with no other field.
C1_RootGetWelcome ==
    \A r \in ReqIds :
        (stage[r] = "done" /\ IsRootGet(r)) =>
            /\ resp[r].status = 200
            /\ DOMAIN resp[r].body = {"message"}
            /\ resp[r].body.message = "Welcome to the FastAPI Example!"

\* GET /?x=1 answered after another GET / was answered.
C1_Witness ==
    /\ stage[1] = "done" /\ IsRootGet(1)
    /\ stage[2] = "done" /\ IsRootGet(2) /\ req[2].query = "x=1"
    /\ resp[2] = Success(Welcome)

\* C2: a request to "/" with a method other than GET never reaches
\* read_root and is answered 405, never 200 and never the welcome payload.
C2_RootOtherMethod ==
    \A r \in ReqIds :
        (stage[r] # "none" /\ req[r].path = RootPath /\ req[r].method # "GET") =>
            /\ endpoint[r] # "read_root"
            /\ stage[r] \in {"accepted", "done"}
            /\ stage[r] = "done" =>
                  /\ resp[r].status = 405
                  /\ resp[r].body # Welcome

C2_Witness ==
    \E r \in ReqIds :
        /\ stage[r] = "done" /\ req[r].path = RootPath
        /\ req[r].method = "POST" /\ resp[r] = MethodNotAllowed

\* C3 as stated: every request whose path is not "/" is answered with a
\* status other than 200, for every method.
C3_NonRootNever200 ==
    \A r \in ReqIds :
        (stage[r] = "done" /\ req[r].path # RootPath) => resp[r].status # 200

\* C3 amended: a request whose path is neither "/" nor one of the
\* documentation paths FastAPI registers by default is never answered
\* 200, for any method: it gets 307 when adding or stripping trailing
\* slashes gives a registered path, and 404 otherwise. A documentation
\* path is answered 200 to GET and HEAD and 405 to any other method.
C3_UnmatchedPathNot200 ==
    \A r \in ReqIds :
        /\ (stage[r] = "done" /\ req[r].path \notin DocPaths \cup {RootPath}) =>
              /\ resp[r].status # 200
              /\ endpoint[r] = ""
              /\ IF RedirectPath(req[r].path) \in DocPaths \cup {RootPath}
                 THEN resp[r].status = 307
                 ELSE resp[r] = NotFound
        /\ (stage[r] = "done" /\ req[r].path \in DocPaths) =>
              resp[r].status = IF req[r].method \in {"GET", "HEAD"}
                               THEN 200 ELSE 405

C3_Witness ==
    \E r \in ReqIds :
        /\ stage[r] = "done" /\ req[r].method = "GET"
        /\ req[r].path = <<"/", "nonexistent">> /\ resp[r].status = 404

\* C4 as stated: after startup the route table holds (GET, "/") and
\* nothing else, and only GET "/" is answered 200.
C4_SingleRoute ==
    /\ AfterStartup => routes = <<RootRoute>>
    /\ \A r \in ReqIds :
          (stage[r] = "done" /\ resp[r].status = 200) => IsRootGet(r)

\* C4 amended: the module registers one route, (GET, "/"), after the four
\* documentation routes FastAPI() registers by default; after startup the
\* route table is exactly these five in every state, and 200 is answered
\* only to GET "/" and to GET or HEAD on a documentation path.
C4_RouteTableFixed ==
    /\ AfterStartup =>
          /\ Len(routes) = 5
          /\ SubSeq(routes, 1, 4) = DefaultRoutes
          /\ routes[5] = [path |-> <<"/">>, methods |-> {"GET"},
                          endpoint |-> "read_root"]
    /\ \A r \in ReqIds :
          (stage[r] = "done" /\ resp[r].status = 200) =>
              \/ IsRootGet(r)
              \/ req[r].path \in DocPaths /\ req[r].method \in {"GET", "HEAD"}

C4_Witness ==
    /\ AfterStartup
    /\ \E r \in ReqIds :
          /\ stage[r] = "done" /\ resp[r].status = 200
          /\ req[r].path = DocsPath /\ req[r].method = "HEAD"

AloneResponse(rq) ==
    LET d == Router(RouteTable, rq)
    IN IF d.kind = "response" THEN d.response
       ELSE IF d.endpoint = "read_root" THEN Success(Welcome)
       ELSE Success([document |-> d.endpoint, title |-> "FastAPI Example"])

\* C6: under every interleaving of the steps of the requests in flight,
\* each answered request has the response it gets when served alone.
C6_Independent ==
    \A r \in ReqIds : stage[r] = "done" => resp[r] = AloneResponse(req[r])

\* Two requests for different endpoints in flight at once, the second
\* dispatched while the first waits for its handler, the first answered.
C6_Witness ==
    /\ stage[1] = "done" /\ IsRootGet(1) /\ resp[1] = Success(Welcome)
    /\ stage[2] = "matched" /\ endpoint[2] = "swagger_ui_html"

\* C7: a server is started only when __name__ is "__main__", and then on
\* 0.0.0.0:8000; an imported module registers its route and binds nothing.
C7_MainGuard ==
    /\ bound # NoBind =>
          /\ module_name = "__main__"
          /\ bound = [host |-> "0.0.0.0", port |-> 8000]
    /\ pc \in {"serving", "stopping"} => bound # NoBind
    /\ module_name # "__main__" =>
          /\ pc \notin {"serving", "stopping", "stopped"}
          /\ bound = NoBind
    /\ pc = "imported" =>
          \E i \in 1..Len(routes) :
              routes[i].path = RootPath /\ routes[i].methods = {"GET"}

\* An imported module whose host has served a request, nothing bound.
C7_Witness ==
    /\ module_name = ImportedName /\ pc = "imported" /\ bound = NoBind
    /\ \E r \in ReqIds : stage[r] = "done" /\ resp[r] = Success(Welcome)

\* C8: executed directly, the route (GET, "/") is registered before the
\* port is bound, no request is accepted before the port is bound, and a
\* step that serves a request never leaves the listening state (only the
\* external termination does).
C8_Lifecycle ==
    /\ [](bound # NoBind =>
            \E i \in 1..Len(routes) :
                routes[i].path = RootPath /\ "GET" \in routes[i].methods)
    /\ []((module_name = MainName /\ \E r \in ReqIds : stage[r] # "none") =>
            pc \in {"serving", "stopping", "stopped"})
    /\ [][(pc = "serving" /\ <<req, stage, endpoint, cursor, resp>>'
                                # <<req, stage, endpoint, cursor, resp>>)
             => pc' = "serving"]_vars
    /\ [][(pc = "serving" /\ pc' # "serving") =>
             (pc' = "stopping" /\ UNCHANGED <<routes, bound>>)]_vars

\* Listening on the bound port with every request answered.
C8_Witness ==
    /\ module_name = MainName /\ pc = "serving"
    /\ bound = [host |-> Host, port |-> Port]
    /\ \A r \in ReqIds : stage[r] = "done"

\* C9: no handler invocation is ever suspended at an await (an endpoint
\* runs from call to return in one step), and with the event loop running
\* every ready task, each accepted GET "/" is eventually answered.
C9_HandlerCompletes ==
    /\ [](\A r \in ReqIds : stage[r] # "suspended" /\ cursor[r] = 1)
    /\ \A r \in ReqIds :
          (stage[r] = "accepted" /\ IsRootGet(r))
              ~> (stage[r] = "done" /\ resp[r] = Success(Welcome))

C9_Witness ==
    \E r \in ReqIds :
        /\ stage[r] = "done" /\ endpoint[r] = "read_root" /\ cursor[r] = 1
        /\ pc = "stopped"

====
